---------------------------- MODULE Spec2Model ----------------------------
(***************************************************************************)
(* Model of assets/conteudo/code-quality/main.py: the paired low-quality   *)
(* and higher-quality example functions.  Every example function is an     *)
(* action that performs one whole call; the module-level dictionary        *)
(* `cache` of the memoized fibonacci_of and the console are the state      *)
(* that outlives a call.                                                   *)
(*                                                                         *)
(* Python values are records [t |-> type name, v |-> payload]:             *)
(*   int    v is an integer                                                *)
(*   float  v is <<numerator, denominator>> in lowest terms, denominator   *)
(*          positive (floats are modelled exactly, rounding is ignored)    *)
(*   str    v is the sequence of the string's characters                   *)
(*   list   v is the sequence of the list's (integer) elements             *)
(*   None   v is 0                                                         *)
(* Several functions of the file share one Python name; the low-quality    *)
(* variant carries the suffix _low, the reusability variant of greet the   *)
(* suffix _reusable.                                                       *)
(***************************************************************************)
EXTENDS Integers, Sequences, FiniteSets, TLC

VARIABLES
    cache,   \* the module-level dict of the memoized fibonacci_of
    out,     \* the console: the text written by each print call, in order
    fn,      \* the function called last
    args,    \* the arguments it was called with
    post,    \* the argument objects as they are after the call
    ret,     \* the value it returned (None when it raised)
    exc,     \* the exception that escaped the call, "none" when it returned
    printed, \* the texts the call wrote to the console
    calls    \* how many times fibonacci_of was entered during the call

vars == <<cache, out, fn, args, post, ret, exc, printed, calls>>

---------------------------------------------------------------------------
(* Bounds of the model *)

\* the largest index fibonacci_of is called with
MaxN == 5

\* the longest list process and clean_data are called with
MaxLen == 3

\* the number of print calls the console holds
MaxOut == 1

---------------------------------------------------------------------------
(* Python values *)

PyInt(i) == [t |-> "int", v |-> i]

PyFloat(n, d) == [t |-> "float", v |-> <<n, d>>]

PyStr(s) == [t |-> "str", v |-> s]

PyList(xs) == [t |-> "list", v |-> xs]

PyNone == [t |-> "None", v |-> 0]

Abs(i) == IF i < 0 THEN -i ELSE i

RECURSIVE GCD(_, _)
GCD(a, b) == IF b = 0 THEN a ELSE GCD(b, a % b)

\* the float with value n/d, d # 0
Ratio(n, d) ==
    LET g == GCD(Abs(n), Abs(d))
        s == IF d < 0 THEN -1 ELSE 1
    IN  PyFloat((s * n) \div g, (s * d) \div g)

IsNumber(x) == x.t \in {"int", "float"}

\* a number as a float
AsFloat(x) == IF x.t = "int" THEN PyFloat(x.v, 1) ELSE x

IsZero(x) == IF x.t = "int" THEN x.v = 0 ELSE x.v[1] = 0

FloatAdd(x, y) == Ratio(x.v[1] * y.v[2] + y.v[1] * x.v[2], x.v[2] * y.v[2])

FloatMul(x, y) == Ratio(x.v[1] * y.v[1], x.v[2] * y.v[2])

---------------------------------------------------------------------------
(* Strings *)

Whitespace == {" ", "\n", "\t"}

Digits == {"0", "1", "2", "3", "4", "5", "6", "7", "8", "9"}

DigitVal(c) ==
    CASE c = "0" -> 0 [] c = "1" -> 1 [] c = "2" -> 2 [] c = "3" -> 3
      [] c = "4" -> 4 [] c = "5" -> 5 [] c = "6" -> 6 [] c = "7" -> 7
      [] c = "8" -> 8 [] c = "9" -> 9

RECURSIVE lstrip(_)
lstrip(s) ==
    IF s # <<>> /\ Head(s) \in Whitespace THEN lstrip(Tail(s)) ELSE s

RECURSIVE rstrip(_)
rstrip(s) ==
    IF s # <<>> /\ s[Len(s)] \in Whitespace
    THEN rstrip(SubSeq(s, 1, Len(s) - 1))
    ELSE s

\* str.strip()
strip(s) == rstrip(lstrip(s))

RECURSIVE DecimalValue(_)
DecimalValue(s) ==
    IF s = <<>> THEN 0
    ELSE 10 * DecimalValue(SubSeq(s, 1, Len(s) - 1)) + DigitVal(s[Len(s)])

\* float(x): a number is converted, a string is parsed.  The strings of the
\* model are over digits, sign, blank and letter a; of these float accepts
\* exactly  blanks sign? digit+ blanks  and raises ValueError on the rest.
float(x) ==
    IF IsNumber(x) THEN [exc |-> "none", val |-> AsFloat(x)]
    ELSE LET s == strip(x.v)
             signed == s # <<>> /\ Head(s) \in {"+", "-"}
             body == IF signed THEN Tail(s) ELSE s
             sign == IF signed /\ Head(s) = "-" THEN -1 ELSE 1
         IN  IF body # <<>> /\ \A i \in 1..Len(body) : body[i] \in Digits
             THEN [exc |-> "none", val |-> PyFloat(sign * DecimalValue(body), 1)]
             ELSE [exc |-> "ValueError", val |-> PyNone]

\* print(s): the text one print call writes to the console
print(s) == s \o <<"\n">>

---------------------------------------------------------------------------
(* The example functions, as operators.  An operator that can raise or     *)
(* print returns [exc, val, text]: the escaping exception ("none" when the *)
(* call returns), the returned value and the texts written to the console. *)

Returns(val) == [exc |-> "none", val |-> val, text |-> <<>>]

Raises(e) == [exc |-> e, val |-> PyNone, text |-> <<>>]

\* a + b
PyAdd(a, b) ==
    IF a.t = "int" /\ b.t = "int" THEN Returns(PyInt(a.v + b.v))
    ELSE IF IsNumber(a) /\ IsNumber(b)
         THEN Returns(FloatAdd(AsFloat(a), AsFloat(b)))
    ELSE IF a.t = "str" /\ b.t = "str" THEN Returns(PyStr(a.v \o b.v))
    ELSE Raises("TypeError")

\* a * b, for numbers
PyMul(a, b) ==
    IF a.t = "int" /\ b.t = "int" THEN PyInt(a.v * b.v)
    ELSE FloatMul(AsFloat(a), AsFloat(b))

\* a / b, for numbers
PyTrueDiv(a, b) ==
    IF IsZero(b) THEN Raises("ZeroDivisionError")
    ELSE LET x == AsFloat(a)
             y == AsFloat(b)
         IN  Returns(Ratio(x.v[1] * y.v[2], x.v[2] * y.v[1]))

add_numbers_low(a, b) == PyAdd(a, b)

add_numbers(a, b) ==
    LET fa == float(a)
        fb == float(b)
    IN  IF fa.exc # "none" THEN Raises(fa.exc)
        ELSE IF fb.exc # "none" THEN Raises(fb.exc)
        ELSE Returns(FloatAdd(fa.val, fb.val))

ca(w, h) == PyMul(w, h)

calculate_rectangle_area(width, height) == PyMul(width, height)

multiply_low(a, b) == PyMul(a, b)

multiply(a, b) == PyMul(a, b)

greet_alice == PyStr(<<"H", "e", "l", "l", "o", ",", " ", "A", "l", "i", "c", "e", "!">>)

\* f"Hello {name}!"
greet_reusable(name) == PyStr(<<"H", "e", "l", "l", "o", " ">> \o name.v \o <<"!">>)

RECURSIVE sum(_)
sum(numbers) ==
    IF numbers = <<>> THEN 0 ELSE Head(numbers) + sum(Tail(numbers))

process(numbers) ==
    LET keep(number) == number >= 0
        cleaned == SelectSeq(numbers, keep)
    IN  PyInt(sum(cleaned))

\* clean_data keeping only the numbers above zero
clean_data_positive(numbers) ==
    LET keep(number) == number > 0
    IN  [val |-> PyList(SelectSeq(numbers, keep)), numbers |-> numbers]

\* [val, numbers]: the list returned and the argument list after the call;
\* the comprehension builds a new list and leaves its argument alone
clean_data(numbers) ==
    LET keep(number) == number >= 0
    IN  [val |-> PyList(SelectSeq(numbers, keep)), numbers |-> numbers]

calculate_total(numbers) == PyInt(sum(numbers))

divide_numbers_low(a, b) == PyTrueDiv(a, b)

ErrorMessage ==
    <<"E", "r", "r", "o", "r", ":", " ", "c", "a", "n", "´", "t", " ",
      "d", "i", "v", "i", "d", "e", " ", "b", "y", " ", "z", "e", "r", "o">>

\* divide_numbers without the except clause
divide_numbers_uncaught(a, b) == PyTrueDiv(a, b)

divide_numbers(a, b) ==
    LET r == PyTrueDiv(a, b)
    IN  IF r.exc = "ZeroDivisionError"
        THEN [exc |-> "none", val |-> PyNone, text |-> <<print(ErrorMessage)>>]
        ELSE r

\* f"Hello, {name}!"
HelloName(name) == <<"H", "e", "l", "l", "o", ",", " ">> \o name.v \o <<"!">>

greet_low(name) ==
    [exc |-> "none", val |-> PyNone, text |-> <<print(HelloName(name))>>]

\* greet with the comma of the greeting left out
greet_no_comma(name) ==
    PyStr(<<"H", "e", "l", "l", "o", " ">> \o name.v \o <<"!">>)

greet(name) == PyStr(HelloName(name))

Alice == PyStr(<<"A", "l", "i", "c", "e">>)

RECURSIVE Concat(_)
Concat(texts) == IF texts = <<>> THEN <<>> ELSE Head(texts) \o Concat(Tail(texts))

\* capsys collects what greet writes; the console itself receives nothing
test_greet_low ==
    LET captured == Concat(greet_low(Alice).text)
    IN  IF strip(captured)
             = <<"H", "e", "l", "l", "o", ",", " ", "A", "l", "i", "c", "e", "!">>
        THEN Returns(PyNone)
        ELSE Raises("AssertionError")

test_greet ==
    IF greet(Alice).v
         = <<"H", "e", "l", "l", "o", ",", " ", "A", "l", "i", "c", "e", "!">>
    THEN Returns(PyNone)
    ELSE Raises("AssertionError")

RECURSIVE fibonacci_of_low(_)
\* [val, calls]: the result and the number of calls made
fibonacci_of_low(n) ==
    IF n \in {0, 1} THEN [val |-> n, calls |-> 1]
    ELSE LET r1 == fibonacci_of_low(n - 1)
             r2 == fibonacci_of_low(n - 2)
         IN  [val |-> r1.val + r2.val, calls |-> 1 + r1.calls + r2.calls]

InitialCache == [k \in {0, 1} |-> k]

\* cache[n] = v
SetItem(c, n, v) == [k \in DOMAIN c \cup {n} |-> IF k = n THEN v ELSE c[k]]

RECURSIVE fibonacci_of_twice(_, _)
\* fibonacci_of adding fibonacci_of(n - 1) to itself
fibonacci_of_twice(n, c) ==
    IF n \in DOMAIN c THEN [val |-> c[n], cache |-> c, calls |-> 1]
    ELSE LET r1 == fibonacci_of_twice(n - 1, c)
             r2 == fibonacci_of_twice(n - 1, r1.cache)
             c2 == SetItem(r2.cache, n, r1.val + r2.val)
         IN  [val |-> c2[n], cache |-> c2, calls |-> 1 + r1.calls + r2.calls]

RECURSIVE fibonacci_of_wrong_key(_, _)
\* fibonacci_of storing its result under the key n - 1
fibonacci_of_wrong_key(n, c) ==
    IF n \in DOMAIN c THEN [val |-> c[n], cache |-> c, calls |-> 1]
    ELSE LET r1 == fibonacci_of_wrong_key(n - 1, c)
             r2 == fibonacci_of_wrong_key(n - 2, r1.cache)
             c2 == SetItem(r2.cache, n - 1, r1.val + r2.val)
         IN  [val |-> r1.val + r2.val, cache |-> c2,
              calls |-> 1 + r1.calls + r2.calls]

RECURSIVE fibonacci_of(_, _)
\* [val, cache, calls]: the result, the dictionary after the call and the
\* number of calls made, for a call that finds the dictionary c
fibonacci_of(n, c) ==
    IF n \in DOMAIN c THEN [val |-> c[n], cache |-> c, calls |-> 1]
    ELSE LET r1 == fibonacci_of(n - 1, c)
             r2 == fibonacci_of(n - 2, r1.cache)
             c2 == SetItem(r2.cache, n, r1.val + r2.val)
         IN  [val |-> c2[n], cache |-> c2, calls |-> 1 + r1.calls + r2.calls]

---------------------------------------------------------------------------
(* The arguments the functions are called with *)

\* factors of the products
Factors == {PyInt(-3), PyInt(12), PyFloat(1, 2)}

\* dividends and divisors
Numbers == {PyInt(-3), PyInt(0), PyInt(2), PyInt(4), PyFloat(0, 1)}

\* summands: numbers, numeric strings and strings that are no number
Summands ==
    {PyInt(2), PyInt(3), PyFloat(1, 2),
     PyStr(<<"3">>), PyStr(<<"a">>), PyStr(<<" ", "-", "1", "2", "\n">>)}

Names == {Alice, PyStr(<<>>)}

Elements == {-1, 0, 2}

Lists == UNION {[1..n -> Elements] : n \in 0..MaxLen}

---------------------------------------------------------------------------
(* The state machine: one action per function, a whole call each *)

Init ==
    /\ cache = InitialCache
    /\ out = <<>>
    /\ fn = "none"
    /\ args = <<>>
    /\ post = <<>>
    /\ ret = PyNone
    /\ exc = "none"
    /\ printed = <<>>
    /\ calls = 0

\* a call with arguments a and outcome o, which leaves the arguments as p
\* and the dictionary alone
CallPost(a, p, o) ==
    /\ Len(out) + Len(o.text) <= MaxOut
    /\ args' = a
    /\ post' = p
    /\ ret' = o.val
    /\ exc' = o.exc
    /\ printed' = o.text
    /\ out' = out \o o.text
    /\ calls' = 0
    /\ UNCHANGED cache

\* a call that does not touch its arguments
Call(a, o) == CallPost(a, a, o)

Call_add_numbers_low ==
    \E a, b \in Summands :
        /\ fn' = "add_numbers_low"
        /\ Call(<<a, b>>, add_numbers_low(a, b))

Call_add_numbers ==
    \E a, b \in Summands :
        /\ fn' = "add_numbers"
        /\ Call(<<a, b>>, add_numbers(a, b))

Call_ca ==
    \E w, h \in Factors :
        /\ fn' = "ca"
        /\ Call(<<w, h>>, Returns(ca(w, h)))

Call_calculate_rectangle_area ==
    \E width, height \in Factors :
        /\ fn' = "calculate_rectangle_area"
        /\ Call(<<width, height>>,
                Returns(calculate_rectangle_area(width, height)))

Call_multiply_low ==
    \E a, b \in Factors :
        /\ fn' = "multiply_low"
        /\ Call(<<a, b>>, Returns(multiply_low(a, b)))

Call_multiply ==
    \E a, b \in Factors :
        /\ fn' = "multiply"
        /\ Call(<<a, b>>, Returns(multiply(a, b)))

Call_greet_alice ==
    /\ fn' = "greet_alice"
    /\ Call(<<>>, Returns(greet_alice))

Call_greet_reusable ==
    \E name \in Names :
        /\ fn' = "greet_reusable"
        /\ Call(<<name>>, Returns(greet_reusable(name)))

Call_process ==
    \E numbers \in Lists :
        /\ fn' = "process"
        /\ Call(<<PyList(numbers)>>, Returns(process(numbers)))

Call_clean_data ==
    \E numbers \in Lists :
        LET r == clean_data(numbers)
        IN  /\ fn' = "clean_data"
            /\ CallPost(<<PyList(numbers)>>, <<PyList(r.numbers)>>,
                        Returns(r.val))

\* print(calculate_total(cleanead)): the total of the list clean_data returned
Call_calculate_total ==
    /\ fn = "clean_data"
    /\ fn' = "calculate_total"
    /\ Call(<<ret>>, Returns(calculate_total(ret.v)))

Call_divide_numbers_low ==
    \E a, b \in Numbers :
        /\ fn' = "divide_numbers_low"
        /\ Call(<<a, b>>, divide_numbers_low(a, b))

Call_divide_numbers ==
    \E a, b \in Numbers :
        /\ fn' = "divide_numbers"
        /\ Call(<<a, b>>, divide_numbers(a, b))

Call_greet_low ==
    \E name \in Names :
        /\ fn' = "greet_low"
        /\ Call(<<name>>, greet_low(name))

Call_test_greet_low ==
    /\ fn' = "test_greet_low"
    /\ Call(<<>>, test_greet_low)

Call_greet ==
    \E name \in Names :
        /\ fn' = "greet"
        /\ Call(<<name>>, Returns(greet(name)))

Call_test_greet ==
    /\ fn' = "test_greet"
    /\ Call(<<>>, test_greet)

Call_fibonacci_of_low ==
    \E n \in 0..MaxN :
        LET r == fibonacci_of_low(n)
        IN  /\ fn' = "fibonacci_of_low"
            /\ args' = <<PyInt(n)>>
            /\ post' = <<PyInt(n)>>
            /\ ret' = PyInt(r.val)
            /\ exc' = "none"
            /\ printed' = <<>>
            /\ calls' = r.calls
            /\ UNCHANGED <<cache, out>>

Call_fibonacci_of ==
    \E n \in 0..MaxN :
        LET r == fibonacci_of(n, cache)
        IN  /\ fn' = "fibonacci_of"
            /\ args' = <<PyInt(n)>>
            /\ post' = <<PyInt(n)>>
            /\ ret' = PyInt(r.val)
            /\ exc' = "none"
            /\ printed' = <<>>
            /\ calls' = r.calls
            /\ cache' = r.cache
            /\ UNCHANGED out

Next ==
    \/ Call_add_numbers_low
    \/ Call_add_numbers
    \/ Call_ca
    \/ Call_calculate_rectangle_area
    \/ Call_multiply_low
    \/ Call_multiply
    \/ Call_greet_alice
    \/ Call_greet_reusable
    \/ Call_process
    \/ Call_clean_data
    \/ Call_calculate_total
    \/ Call_divide_numbers_low
    \/ Call_divide_numbers
    \/ Call_greet_low
    \/ Call_test_greet_low
    \/ Call_greet
    \/ Call_test_greet
    \/ Call_fibonacci_of_low
    \/ Call_fibonacci_of

Spec == Init /\ [][Next]_vars

---------------------------------------------------------------------------
(* Properties *)

RECURSIVE FibonacciFrom(_, _, _)
FibonacciFrom(k, a, b) == IF k = 0 THEN a ELSE FibonacciFrom(k - 1, b, a + b)

\* the n-th Fibonacci number: F(0) = 0, F(1) = 1, F(k) = F(k-1) + F(k-2)
Fibonacci(n) == FibonacciFrom(n, 0, 1)

\* C1: whatever the earlier calls left in the dictionary, the memoized
\* fibonacci_of(n) returns, for every n >= 0, the n-th Fibonacci number, which
\* is also what the recursive fibonacci_of(n) returns; every entry of the
\* dictionary is the Fibonacci number of its key.
C1_MemoizedFibonacci ==
    /\ \A k \in DOMAIN cache : k >= 0 /\ cache[k] = Fibonacci(k)
    /\ fn = "fibonacci_of" =>
          /\ exc = "none"
          /\ ret = PyInt(Fibonacci(args[1].v))
          /\ ret.v = fibonacci_of_low(args[1].v).val

\* a call that found part of its subproblems stored by an earlier call
C1_Witness ==
    /\ fn = "fibonacci_of"
    /\ args[1].v = MaxN
    /\ calls > 1
    /\ calls < fibonacci_of(MaxN, InitialCache).calls
    /\ ret.v = Fibonacci(MaxN)

\* a / b = the float q, as an equation between fractions
IsQuotient(q, a, b) ==
    /\ q.t = "float"
    /\ q.v[2] > 0
    /\ q.v[1] * AsFloat(a).v[2] * AsFloat(b).v[1]
         = q.v[2] * AsFloat(a).v[1] * AsFloat(b).v[2]

\* the console ends with the texts the last call wrote
ConsoleEndsWith(texts) ==
    /\ Len(out) >= Len(texts)
    /\ SubSeq(out, Len(out) - Len(texts) + 1, Len(out)) = texts

\* C2: the higher-quality divide_numbers never raises; with b = 0 it prints
\* the error message once and returns None, otherwise it returns a / b and
\* prints nothing.  The low-quality divide_numbers(a, 0) ends with
\* ZeroDivisionError.
C2_DivideByZeroHandled ==
    /\ fn = "divide_numbers" =>
          /\ exc = "none"
          /\ IsZero(args[2]) =>
                /\ ret.t = "None"
                /\ printed = <<ErrorMessage \o <<"\n">>>>
                /\ ConsoleEndsWith(printed)
          /\ ~IsZero(args[2]) =>
                /\ IsQuotient(ret, args[1], args[2])
                /\ printed = <<>>
    /\ fn = "divide_numbers_low" /\ IsZero(args[2]) =>
          /\ exc = "ZeroDivisionError"
          /\ printed = <<>>

C2_Witness ==
    /\ fn = "divide_numbers"
    /\ args = <<PyInt(4), PyInt(0)>>
    /\ ret.t = "None"
    /\ exc = "none"
    /\ out = <<ErrorMessage \o <<"\n">>>>

\* C3, as the specification states it: no call changes state that a later
\* call reads.
C3_NoSharedMutableState == [][cache' = cache]_vars

\* C3, amended: only the memoized fibonacci_of changes state that a later
\* call reads.  It adds entries to the dictionary and never changes or removes
\* one, so the value it returns is the one a call on the initial dictionary
\* returns, while the number of calls it makes is at most that many.
C3_OnlyFibonacciSharesState ==
    [][/\ fn' # "fibonacci_of" => cache' = cache
       /\ DOMAIN cache \subseteq DOMAIN cache'
       /\ \A k \in DOMAIN cache : cache'[k] = cache[k]
       /\ fn' = "fibonacci_of" =>
            /\ ret'.v = fibonacci_of(args'[1].v, InitialCache).val
            /\ calls' <= fibonacci_of(args'[1].v, InitialCache).calls]_vars

\* a call that did less work than the same call on the initial dictionary
C3_Witness ==
    /\ fn = "fibonacci_of"
    /\ args[1].v >= 2
    /\ calls = 1
    /\ fibonacci_of(args[1].v, InitialCache).calls > 1

HelloAlice == <<"H", "e", "l", "l", "o", ",", " ", "A", "l", "i", "c", "e", "!">>

\* C4: the testable greet(name) returns "Hello, " + name + "!" and prints
\* nothing; greet("Alice") returns "Hello, Alice!", the line the print-based
\* greet("Alice") writes to the console, and both tests pass.
C4_GreetReturnsGreeting ==
    /\ fn = "greet" =>
          /\ exc = "none"
          /\ ret.t = "str"
          /\ ret.v = <<"H", "e", "l", "l", "o", ",", " ">> \o args[1].v \o <<"!">>
          /\ args[1] = Alice => ret.v = HelloAlice
          /\ printed = <<>>
    /\ fn = "greet_low" /\ args[1] = Alice =>
          /\ ret.t = "None"
          /\ printed = <<HelloAlice \o <<"\n">>>>
          /\ ConsoleEndsWith(printed)
    /\ fn \in {"test_greet", "test_greet_low"} =>
          /\ exc = "none"
          /\ printed = <<>>

C4_Witness ==
    /\ fn = "greet"
    /\ args = <<Alice>>
    /\ ret = PyStr(HelloAlice)
    /\ out = <<HelloAlice \o <<"\n">>>>

\* C5: the higher-quality add_numbers returns a float for every pair of
\* numbers and strings.
C5_AddNumbersNeverRaises ==
    fn = "add_numbers" => exc = "none" /\ ret.t = "float"

\* the sum of xs[i] over the indices i of I
RECURSIVE SumOver(_, _)
SumOver(xs, I) ==
    IF I = {} THEN 0
    ELSE LET i == CHOOSE j \in I : TRUE
         IN  xs[i] + SumOver(xs, I \ {i})

\* the indices of the elements of xs that are >= 0
Kept(xs) == {i \in 1..Len(xs) : xs[i] >= 0}

\* ys holds the elements of xs at the indices of I, in the order of xs
IsSelection(ys, xs, I) ==
    /\ Len(ys) = Cardinality(I)
    /\ \A i \in I : ys[Cardinality({j \in I : j <= i})] = xs[i]

\* C6: process(xs) is the sum of the elements of xs that are >= 0 and equals
\* calculate_total(clean_data(xs)); clean_data(xs) returns these elements in
\* their order and leaves xs as it was; the total of the list clean_data
\* returned is the sum of its elements, which is what process makes of it.
C6_RefactoringPreservesTotal ==
    /\ fn = "process" =>
          /\ ret = PyInt(SumOver(args[1].v, Kept(args[1].v)))
          /\ ret = calculate_total(clean_data(args[1].v).val.v)
    /\ fn = "clean_data" =>
          /\ ret.t = "list"
          /\ IsSelection(ret.v, args[1].v, Kept(args[1].v))
          /\ post = args
    /\ fn = "calculate_total" =>
          /\ Kept(args[1].v) = 1..Len(args[1].v)
          /\ ret = PyInt(SumOver(args[1].v, 1..Len(args[1].v)))
          /\ ret = process(args[1].v)

\* clean_data dropped a negative number between two numbers it kept
C6_Witness ==
    /\ fn = "clean_data"
    /\ args = <<PyList(<<2, -1, 0>>)>>
    /\ ret = PyList(<<2, 0>>)
    /\ process(args[1].v) = PyInt(2)

\* C7: greet("Alice") of the reusable greet returns what greet_alice()
\* returns, "Hello, Alice!".
C7_GreetGeneralizesGreetAlice ==
    fn = "greet_reusable" /\ args = <<Alice>> =>
        ret = greet_alice /\ ret.v = HelloAlice

=============================================================================
